---- MODULE Spec2Model ----
(***************************************************************************)
(* pgsql-mcp-server: a FastMCP server that exposes PostgreSQL schema       *)
(* introspection and raw statement execution as tools                      *)
(* (src/src/pgsql_mcp_server/app.py; src/main.py is the earlier,           *)
(* synchronous revision of the same server).                               *)
(*                                                                         *)
(* The model has three layers:                                             *)
(*   - the lifespan manager (app_lifespan) that owns the one engine;       *)
(*   - the nine tool coroutines, one action per await point, run by a      *)
(*     small set of concurrent invocation slots;                           *)
(*   - the database the engine talks to, reduced to what the tools can     *)
(*     observe: tables, their rows, privileges, and per-session            *)
(*     uncommitted work.                                                   *)
(***************************************************************************)
EXTENDS Integers, Sequences, FiniteSets, TLC

(***************************************************************************)
(* Bounds                                                                  *)
(***************************************************************************)
\* Total number of tool invocations in one run of the server, under serial
\* and under concurrent dispatch.
MaxCalls == 4

MaxConcurrentCalls == 3

\* Invocation slots: the host dispatches tool calls concurrently.
Procs == {"c1", "c2"}

\* Table names and row values that statements may mention.
Tables == {"t1", "t2"}
Values == {"a", "b"}

\* schema_name arguments: omitted (None) or a schema that holds no table.
SchemaArgs == {"None", "other"}

(***************************************************************************)
(* Exceptions.  cls is the Python class family the except clauses          *)
(* discriminate on: "SA" is sqlalchemy.exc.SQLAlchemyError and its         *)
(* subclasses, "Other" any other Exception.                                *)
(***************************************************************************)
NoExc == [cls |-> "none", msg |-> ""]

SAError(m) == [cls |-> "SA", msg |-> m]

OtherError(m) == [cls |-> "Other", msg |-> m]

\* Failures that do not depend on the statement: the connection is lost
\* (an SQLAlchemyError) or something outside the database layer breaks.
Faults == {SAError("connection lost"), OtherError("unexpected failure")}

(***************************************************************************)
(* Tool results.  A tool either returns text (a plain string, or a title   *)
(* followed by a tabulate table) or lets an exception escape.              *)
(***************************************************************************)
NoResult == [kind |-> "none", text |-> "", headers |-> <<>>, rows |-> <<>>, exc |-> NoExc]

Str(s) == [kind |-> "str", text |-> s, headers |-> <<>>, rows |-> <<>>, exc |-> NoExc]

\* tabulate(table_data, headers=headers, tablefmt="simple") after a title:
\* the header line, then one line per row, in the order given.
Tabulate(title, headers, rows) ==
    [kind |-> "table", text |-> title, headers |-> headers, rows |-> rows, exc |-> NoExc]

Raised(e) == [kind |-> "raise", text |-> "", headers |-> <<>>, rows |-> <<>>, exc |-> e]

(***************************************************************************)
(* Arguments of a tool call: raw SQL for the four run_*_query tools        *)
(* (kind, table, value), table and schema_name for the introspection       *)
(* tools.                                                                  *)
(***************************************************************************)
NoArg == [kind |-> "none", table |-> "", value |-> "", schema |-> ""]

Stmt(k, t, v) == [kind |-> k, table |-> t, value |-> v, schema |-> ""]

\* The statement texts.  CREATEDUP is a CREATE TABLE that names a column
\* twice (tests/test_integration.py:87): it names a table and always fails.
Statements ==
    {Stmt(k, t, "") : k \in {"CREATE", "CREATEDUP", "SELECT", "GRANT"}, t \in Tables}
    \cup {Stmt("INSERT", t, v) : t \in Tables, v \in Values}

Meta(t, s) == [kind |-> "meta", table |-> t, value |-> "", schema |-> s]

IntrospectionOps ==
    {"get_schema_names", "get_tables", "get_columns", "get_indexes", "get_foreign_keys"}

TransactionalOps == {"run_ddl_query", "run_dml_query", "run_dcl_query"}

StatementOps == {"run_dql_query"} \cup TransactionalOps

\* The arguments a caller may pass to each tool.
ArgsOf(o) ==
    CASE o = "get_schema_names" -> {Meta("", "")}
      [] o = "get_tables" -> {Meta("", s) : s \in SchemaArgs}
      [] o \in {"get_columns", "get_indexes", "get_foreign_keys"} ->
            {Meta(t, s) : t \in Tables, s \in SchemaArgs}
      [] OTHER -> Statements

(***************************************************************************)
(* The database: per table, whether it exists, its rows in storage order   *)
(* and whether the privilege of the GRANT statement has been given.        *)
(***************************************************************************)
NoTable == [exists |-> FALSE, rows |-> <<>>, granted |-> FALSE]

EmptyDb == [t \in Tables |-> NoTable]

\* Databases the server may be started against.
InitialDbs ==
    {EmptyDb,
     [EmptyDb EXCEPT !["t1"] = [exists |-> TRUE, rows |-> <<"b">>, granted |-> FALSE],
                     !["t2"] = [exists |-> TRUE, rows |-> <<>>, granted |-> FALSE]]}

\* The error the engine raises for statement s on database d, NoExc if none.
StmtError(s, d) ==
    CASE s.kind = "CREATEDUP" -> SAError("column specified more than once")
      [] s.kind = "CREATE" ->
            IF d[s.table].exists THEN SAError("relation already exists") ELSE NoExc
      [] OTHER ->
            IF d[s.table].exists THEN NoExc ELSE SAError("relation does not exist")

\* The database after statement s took effect.
Apply(d, s) ==
    CASE s.kind = "CREATE" ->
            [d EXCEPT ![s.table] = [exists |-> TRUE, rows |-> <<>>, granted |-> FALSE]]
      [] s.kind = "INSERT" ->
            [d EXCEPT ![s.table].rows = Append(@, s.value)]
      [] s.kind = "GRANT" ->
            [d EXCEPT ![s.table].granted = TRUE]
      [] OTHER -> d

\* Whether statement s writes (opens work that only a commit makes durable).
Writes(s) == s.kind \in {"CREATE", "INSERT", "GRANT"}

\* Two catalog writes to the same table: the second waits for the first
\* transaction to end.
Conflict(s, w) ==
    /\ w # NoArg
    /\ w.table = s.table
    /\ s.kind \in {"CREATE", "GRANT"}
    /\ w.kind = s.kind

(***************************************************************************)
(* What the engine reports back.                                           *)
(***************************************************************************)
\* result.keys(): the column names of a row-returning statement.
Keys(s) == <<"name">>

\* result.fetchall(): the rows of table s.table, one tuple per row, in
\* storage order.
FetchAll(s, d) == [i \in 1..Len(d[s.table].rows) |-> <<d[s.table].rows[i]>>]

\* Only a SELECT returns rows; keys() and fetchall() on the result of any
\* other statement raise ResourceClosedError, an SQLAlchemyError.
ReturnsRows(s) == s.kind = "SELECT"

NoRowsError == SAError("This result object does not return rows")

\* result.rowcount as the driver reports it: rows written by an INSERT,
\* -1 when the statement has no count.
RowCount(s) == IF s.kind = "INSERT" THEN 1 ELSE -1

(***************************************************************************)
(* The catalog behind inspect(sync_conn).  Schema "public" holds the       *)
(* tables; every table is created with the same two columns; t1 carries    *)
(* an index and t2 a self-referencing foreign key.                         *)
(***************************************************************************)
TableOrder == <<"t1", "t2">>

RECURSIVE Existing(_, _)
\* The names in order o of the tables that exist in d.
Existing(d, o) ==
    IF o = <<>> THEN <<>>
    ELSE (IF d[Head(o)].exists THEN <<Head(o)>> ELSE <<>>) \o Existing(d, Tail(o))

NoSuchTable == SAError("NoSuchTableError")

CatalogSchemaNames == <<"information_schema", "public">>

CatalogTableNames(d, schema) == IF schema = "public" THEN Existing(d, TableOrder) ELSE <<>>

CatalogColumns ==
    << [name |-> "id", type |-> "INTEGER", nullable |-> "False",
        autoincrement |-> "True", default |-> "", comment |-> ""],
       [name |-> "name", type |-> "TEXT", nullable |-> "True",
        autoincrement |-> "False", default |-> "", comment |-> ""] >>

CatalogIndexes(t) ==
    IF t = "t1"
    THEN << [name |-> "idx_t1_name", column_names |-> <<"name">>, unique |-> "False"] >>
    ELSE <<>>

CatalogForeignKeys(t) ==
    IF t = "t2"
    THEN << [name |-> "fk_t2_parent", constrained_columns |-> <<"parent_id">>,
             referred_schema |-> "public", referred_table |-> "t2",
             referred_columns |-> <<"id">>] >>
    ELSE <<>>

\* Whether table t is found in the (normalised) schema of database d.
Found(d, t, schema) == schema = "public" /\ d[t].exists

\* The outcome of the metadata query of tool o: [exc, value].
Inspect(o, a, schema, d) ==
    CASE o = "get_schema_names" -> [exc |-> NoExc, value |-> CatalogSchemaNames]
      [] o = "get_tables" -> [exc |-> NoExc, value |-> CatalogTableNames(d, schema)]
      [] ~Found(d, a.table, schema) -> [exc |-> NoSuchTable, value |-> <<>>]
      [] o = "get_columns" -> [exc |-> NoExc, value |-> CatalogColumns]
      [] o = "get_indexes" -> [exc |-> NoExc, value |-> CatalogIndexes(a.table)]
      [] OTHER -> [exc |-> NoExc, value |-> CatalogForeignKeys(a.table)]

(***************************************************************************)
(* Result formatting.                                                      *)
(***************************************************************************)
RECURSIVE Join(_, _)
\* sep.join(xs)
Join(xs, sep) ==
    IF xs = <<>> THEN ""
    ELSE IF Len(xs) = 1 THEN xs[1]
    ELSE xs[1] \o sep \o Join(Tail(xs), sep)

\* schema_name = schema_name or "public"
SchemaOrPublic(s) == IF s = "None" \/ s = "" THEN "public" ELSE s

QueryTableError(e) == Str("Error occurred while querying table: " \o e.msg)

FormatSchemaNames(names) ==
    IF names = <<>> THEN Str("No schemas found.")
    ELSE Str("All schemas: " \o Join(names, ", "))

FormatTables(names, schema) ==
    IF names # <<>>
    THEN Tabulate("", <<"Tables in schema '" \o schema \o "'">>,
                  [i \in 1..Len(names) |-> <<names[i]>>])
    ELSE Str("No tables found in schema " \o schema \o ".")

FormatColumns(cols, t) ==
    IF cols = <<>> THEN Str("No columns found in table.")
    ELSE Tabulate("Columns for table '" \o t \o "'\n\n",
                  <<"Name", "Type", "Nullable", "Autoincrement", "Default", "Comment">>,
                  [i \in 1..Len(cols) |->
                      <<cols[i].name, cols[i].type, cols[i].nullable,
                        cols[i].autoincrement, cols[i].default, cols[i].comment>>])

FormatIndexes(idx, t) ==
    IF idx = <<>> THEN Str("No indexes found in table.")
    ELSE Tabulate("Indexes for table '" \o t \o "'\n\n",
                  <<"Name", "Column Names", "Unique">>,
                  [i \in 1..Len(idx) |->
                      <<idx[i].name, Join(idx[i].column_names, ", "), idx[i].unique>>])

FormatForeignKeys(fks, t) ==
    IF fks # <<>>
    THEN Tabulate("Foreign keys for table '" \o t \o "'\n\n",
                  <<"Name", "Constrained Columns", "Referred Schema",
                    "Referred Table", "Referred Columns">>,
                  [i \in 1..Len(fks) |->
                      <<fks[i].name, Join(fks[i].constrained_columns, ", "),
                        fks[i].referred_schema, fks[i].referred_table,
                        Join(fks[i].referred_columns, ", ")>>])
    ELSE Str("No foreign keys found in table " \o t \o ".")

\* The text tool o returns for the metadata value v.
FormatMeta(o, a, schema, v) ==
    CASE o = "get_schema_names" -> FormatSchemaNames(v)
      [] o = "get_tables" -> FormatTables(v, schema)
      [] o = "get_columns" -> FormatColumns(v, a.table)
      [] o = "get_indexes" -> FormatIndexes(v, a.table)
      [] OTHER -> FormatForeignKeys(v, a.table)

\* get_schema_names has no try/except; the other four catch Exception.
CatchesAll(o) == o # "get_schema_names"

\* What an introspection tool does with exception e.
IntrospectionFailure(o, e) == IF CatchesAll(o) THEN QueryTableError(e) ELSE Raised(e)

\* DDL, DML or DCL in the messages of the three transactional tools.
Tag(o) ==
    CASE o = "run_ddl_query" -> "DDL"
      [] o = "run_dml_query" -> "DML"
      [] OTHER -> "DCL"

SuccessMessage(o, s) ==
    IF o = "run_dml_query"
    THEN Str("DML query executed successfully. Affected rows: " \o ToString(RowCount(s)))
    ELSE Str(Tag(o) \o " query executed successfully.")

\* ErrorMessage with the except SQLAlchemyError clause missing.
ErrorMessageOneClause(o, e) ==
    Str("Unexpected error occurred while executing " \o Tag(o) \o " query: " \o e.msg)

\* except SQLAlchemyError as e / except Exception as e
ErrorMessage(o, e) ==
    IF e.cls = "SA"
    THEN Str("Error occurred while executing " \o Tag(o) \o " query: " \o e.msg)
    ELSE Str("Unexpected error occurred while executing " \o Tag(o) \o " query: " \o e.msg)

\* FormatRows testing len(rows) > 1 instead of the truth of rows.
FormatRowsOffByOne(keys, rows) ==
    IF Len(rows) > 1 THEN Tabulate("", keys, rows) ELSE Str("Query returned no results.")

\* run_dql_query's return value for the fetched rows.
FormatRows(keys, rows) ==
    IF rows # <<>> THEN Tabulate("", keys, rows) ELSE Str("Query returned no results.")

(***************************************************************************)
(* State                                                                   *)
(***************************************************************************)
VARIABLES
    revision,   \* which revision of the server runs: "app" (app.py) or "main" (main.py)
    dispatch,   \* how the host schedules tool calls: "serial" or "concurrent"
    phase,      \* where the server process is in its life
    environ,    \* os.environ["DATABASE_URL"]: "unset" or a connection string
    created,    \* number of engines create_async_engine has made
    disposed,   \* number of engine.dispose() calls
    db,         \* the committed state of the database
    calls,      \* tool invocations started so far
    pc,         \* per invocation slot: the await point it is at
    op,         \* per slot: the tool that was called
    arg,        \* per slot: its arguments
    pending,    \* per slot: the uncommitted write of its session, or NoArg
    exc,        \* per slot: the exception its try block caught, or NoExc
    result,     \* per slot: what the tool hands back to the caller
    trace,      \* per slot: the session methods the tool has called, in order,
                \* each with whether it raised
    conn        \* per slot: whether it holds a connection of the engine's pool

vars ==
    <<revision, dispatch, phase, environ, created, disposed, db, calls,
      pc, op, arg, pending, exc, result, trace, conn>>

lifeVars == <<revision, dispatch, phase, environ, created, disposed>>

\* The state after the module is loaded, before the process is started.
Loaded ==
    /\ revision \in {"app", "main"}
    /\ phase = "boot"
    /\ environ \in {"unset", "dsn"}
    /\ created = 0
    /\ disposed = 0
    /\ db \in InitialDbs
    /\ calls = 0
    /\ pc = [p \in Procs |-> "idle"]
    /\ op = [p \in Procs |-> "none"]
    /\ arg = [p \in Procs |-> NoArg]
    /\ pending = [p \in Procs |-> NoArg]
    /\ exc = [p \in Procs |-> NoExc]
    /\ result = [p \in Procs |-> NoResult]
    /\ trace = [p \in Procs |-> <<>>]
    /\ conn = [p \in Procs |-> FALSE]

\* A host that runs one tool call at a time.
Init == Loaded /\ dispatch = "serial"

\* A host that runs tool calls concurrently.
InitConcurrent == Loaded /\ dispatch = "concurrent"

(***************************************************************************)
(* Process start and the lifespan manager                                  *)
(***************************************************************************)
\* serve(dsn): the click command.  --dsn is optional, so dsn may be None,
\* and os.environ[...] = None raises TypeError before mcp.run().
serve(dsn) ==
    /\ revision = "app"
    /\ phase = "boot"
    /\ IF dsn = "None"
       THEN phase' = "failed" /\ UNCHANGED environ
       ELSE phase' = "run" /\ environ' = dsn
    /\ UNCHANGED <<revision, dispatch, created, disposed, db, calls, pc, op, arg, pending, exc,
                   result, trace, conn>>

\* The mcp object run by a host that imports the module: the environment
\* is used as it is.
mcp_run ==
    /\ revision = "app"
    /\ phase = "boot"
    /\ phase' = "run"
    /\ UNCHANGED <<revision, dispatch, environ, created, disposed, db, calls, pc, op, arg,
                   pending, exc, result, trace, conn>>

\* app_lifespan up to its yield.
app_lifespan_enter ==
    /\ revision = "app"
    /\ phase = "run"
    /\ IF environ = "unset"
       THEN phase' = "failed" /\ UNCHANGED created
       ELSE phase' = "serving" /\ created' = created + 1
    /\ UNCHANGED <<revision, dispatch, environ, disposed, db, calls, pc, op, arg, pending, exc,
                   result, trace, conn>>

\* main.py at import: DATABASE_URL is read once; without it the module
\* raises ValueError.  Otherwise mcp.run() follows.
main_load ==
    /\ revision = "main"
    /\ phase = "boot"
    /\ phase' = IF environ = "unset" THEN "failed" ELSE "run"
    /\ UNCHANGED <<revision, dispatch, environ, created, disposed, db, calls, pc, op,
                   arg, pending, exc, result, trace, conn>>

\* main.py's app_lifespan up to its yield: the engine is created, then a
\* SELECT 1 verifies connectivity; if that fails RuntimeError is raised
\* (the engine is not disposed on this path).
main_app_lifespan_enter(reachable) ==
    /\ revision = "main"
    /\ phase = "run"
    /\ created' = created + 1
    /\ phase' = IF reachable THEN "serving" ELSE "failed"
    /\ UNCHANGED <<revision, dispatch, environ, disposed, db, calls, pc, op, arg,
                   pending, exc, result, trace, conn>>

\* The phase the server is in after the serving body ended.
PhaseAfterBody(error) == IF error THEN "aborted" ELSE "stopped"

\* DisposeCalls without the finally clause: the engine is disposed only
\* when the body ends normally.
DisposeOnCleanExit(error) == IF error THEN 0 ELSE 1

\* Number of dispose() calls the finally clause makes.
DisposeCalls(error) == 1

\* app_lifespan from its yield on: the body ends, normally or with an
\* error thrown in at the yield; the finally clause disposes the engine.
\* The host awaits its request handlers before it leaves the lifespan.
app_lifespan_exit(error) ==
    /\ phase = "serving"
    /\ \A p \in Procs : pc[p] = "idle"
    /\ disposed' = disposed + DisposeCalls(error)
    /\ phase' = PhaseAfterBody(error)
    /\ UNCHANGED <<revision, dispatch, environ, created, db, calls, pc, op, arg, pending, exc,
                   result, trace, conn>>

(***************************************************************************)
(* Tool invocations                                                        *)
(***************************************************************************)
\* One entry of a slot's trace: session method m was awaited and raised e
\* (NoExc: it returned).
Awaited(m, e) == [call |-> m, raised |-> e # NoExc]

\* The first await point of tool o.
FirstStep(o) == IF o \in IntrospectionOps THEN "connect" ELSE "execute"

\* The calls explored under concurrent dispatch: run_dml_query and
\* run_dql_query on INSERT and SELECT statements, and get_tables.
ConcurrentMenu ==
    {<<o, a>> : o \in {"run_dml_query", "run_dql_query"},
                a \in {s \in Statements : s.kind \in {"INSERT", "SELECT"}}}
    \cup {<<"get_tables", Meta("", "None")>>}

\* Whether the host may hand call o(a) to slot p now.  The tools are those
\* of app.py.
Dispatchable(p, o, a) ==
    /\ revision = "app"
    /\ IF dispatch = "serial"
       THEN p = "c1"
       ELSE <<o, a>> \in ConcurrentMenu

\* The number of invocations explored in one run.
CallLimit == IF dispatch = "serial" THEN MaxCalls ELSE MaxConcurrentCalls

\* The host dispatches a tool call: the tool reads the engine from the
\* lifespan context, which exists only while the lifespan body runs.
Call(p, o, a) ==
    /\ phase = "serving"
    /\ pc[p] = "idle"
    /\ Dispatchable(p, o, a)
    /\ calls < CallLimit
    /\ calls' = calls + 1
    /\ pc' = [pc EXCEPT ![p] = FirstStep(o)]
    /\ op' = [op EXCEPT ![p] = o]
    /\ arg' = [arg EXCEPT ![p] = a]
    /\ UNCHANGED <<lifeVars, db, pending, exc, result, trace, conn>>

\* The caller has the result; the slot is free again.
Return(p) ==
    /\ pc[p] = "done"
    /\ pc' = [pc EXCEPT ![p] = "idle"]
    /\ op' = [op EXCEPT ![p] = "none"]
    /\ arg' = [arg EXCEPT ![p] = NoArg]
    /\ exc' = [exc EXCEPT ![p] = NoExc]
    /\ result' = [result EXCEPT ![p] = NoResult]
    /\ trace' = [trace EXCEPT ![p] = <<>>]
    /\ UNCHANGED <<lifeVars, db, calls, pending, conn>>

(***************************************************************************)
(* The five introspection tools                                            *)
(***************************************************************************)
\* async with engine.connect() as connection: entering.
Connect(p) ==
    /\ pc[p] = "connect"
    /\ \E e \in {NoExc} \cup Faults :
        IF e = NoExc
        THEN /\ conn' = [conn EXCEPT ![p] = TRUE]
             /\ pc' = [pc EXCEPT ![p] = "run_sync"]
             /\ UNCHANGED <<exc, result>>
        ELSE /\ exc' = [exc EXCEPT ![p] = e]
             /\ result' = [result EXCEPT ![p] = IntrospectionFailure(op[p], e)]
             /\ pc' = [pc EXCEPT ![p] = "done"]
             /\ UNCHANGED conn
    /\ UNCHANGED <<lifeVars, db, calls, op, arg, pending, trace>>

\* await connection.run_sync(...), leaving the async with block (which
\* returns the connection), then formatting the value or the failure.
RunSync(p) ==
    /\ pc[p] = "run_sync"
    /\ \E r \in {Inspect(op[p], arg[p], SchemaOrPublic(arg[p].schema), db)}
                \cup {[exc |-> f, value |-> <<>>] : f \in Faults} :
        /\ exc' = [exc EXCEPT ![p] = r.exc]
        /\ result' = [result EXCEPT ![p] =
               IF r.exc = NoExc
               THEN FormatMeta(op[p], arg[p], SchemaOrPublic(arg[p].schema), r.value)
               ELSE IntrospectionFailure(op[p], r.exc)]
    /\ conn' = [conn EXCEPT ![p] = FALSE]
    /\ pc' = [pc EXCEPT ![p] = "done"]
    /\ UNCHANGED <<lifeVars, db, calls, op, arg, pending, trace>>

(***************************************************************************)
(* The four statement tools                                                *)
(***************************************************************************)
\* SessionOf with one session object shared by all invocations.
SessionShared(p) == "c1"

\* The session invocation p works in: async with AsyncSession(engine)
\* opens a new one in every invocation.
SessionOf(p) == p

\* The outcomes of executing statement s now: the statement's own error
\* or none, or a fault.
ExecuteOutcomes(s) == {StmtError(s, db)} \cup Faults

\* AfterExecute with run_dql_query committing like the other three.
AfterExecuteCommitAll(o, ok) == IF ok THEN "commit" ELSE "rollback"

\* AfterExecute with a retry: a failed execute is sent again.
AfterExecuteRetry(o, ok) ==
    IF o = "run_dql_query" THEN "close"
    ELSE IF ok THEN "commit" ELSE "execute"

\* AfterExecute without the except clauses: the commit follows the execute
\* whatever its outcome.
AfterExecuteUnhandled(o, ok) == IF o = "run_dql_query" THEN "close" ELSE "commit"

\* AfterExecute reading the statement text: a SELECT is treated as a
\* query by every tool and is not committed.
AfterExecuteByText(o, ok) ==
    IF o = "run_dql_query"
       \/ (\E p \in Procs : pc[p] = "execute" /\ op[p] = o /\ arg[p].kind = "SELECT")
    THEN "close"
    ELSE IF ok THEN "commit" ELSE "rollback"

\* Where a statement tool goes after session.execute returned (ok) or
\* raised: run_dql_query has no handler and leaves the session block.
AfterExecute(o, ok) ==
    IF o = "run_dql_query" THEN "close"
    ELSE IF ok THEN "commit" ELSE "rollback"

\* DqlResult with the failure caught and turned into a string.
DqlResultCaught(s, e, d) ==
    IF e # NoExc THEN Str("Error occurred while executing DQL query: " \o e.msg)
    ELSE IF ReturnsRows(s) THEN FormatRows(Keys(s), FetchAll(s, d))
    ELSE Str("Query returned no results.")

\* What run_dql_query hands back once execute ended with e.
DqlResult(s, e, d) ==
    IF e # NoExc THEN Raised(e)
    ELSE IF ReturnsRows(s) THEN FormatRows(Keys(s), FetchAll(s, d))
    ELSE Raised(NoRowsError)

\* await session.execute(text(raw_sql)): the session checks a connection
\* out, begins a transaction and sends the statement.
Execute(p) ==
    /\ pc[p] = "execute"
    /\ \A q \in Procs \ {SessionOf(p)} : ~Conflict(arg[p], pending[q])
    /\ conn' = [conn EXCEPT ![p] = TRUE]
    /\ \E e \in ExecuteOutcomes(arg[p]) :
        /\ trace' = [trace EXCEPT ![p] = Append(@, Awaited("execute", e))]
        /\ pc' = [pc EXCEPT ![p] = AfterExecute(op[p], e = NoExc)]
        /\ pending' = [pending EXCEPT ![SessionOf(p)] =
               IF e = NoExc /\ Writes(arg[p]) THEN arg[p] ELSE NoArg]
        /\ IF op[p] = "run_dql_query"
           THEN /\ result' = [result EXCEPT ![p] = DqlResult(arg[p], e, db)]
                /\ UNCHANGED exc
           ELSE /\ exc' = [exc EXCEPT ![p] = e]
                /\ UNCHANGED result
    /\ UNCHANGED <<lifeVars, db, calls, op, arg>>

\* Committed where the commit does not make the write durable.
CommittedNothing(d, w) == d

\* The committed database once a session holding write w has committed.
Committed(d, w) == IF w = NoArg THEN d ELSE Apply(d, w)

\* await session.commit(), then the success return.
Commit(p) ==
    /\ pc[p] = "commit"
    /\ \E e \in {NoExc} \cup Faults :
        /\ trace' = [trace EXCEPT ![p] = Append(@, Awaited("commit", e))]
        /\ IF e = NoExc
           THEN /\ db' = Committed(db, pending[SessionOf(p)])
                /\ pending' = [pending EXCEPT ![SessionOf(p)] = NoArg]
                /\ conn' = [conn EXCEPT ![p] = FALSE]
                /\ result' = [result EXCEPT ![p] = SuccessMessage(op[p], arg[p])]
                /\ pc' = [pc EXCEPT ![p] = "close"]
                /\ UNCHANGED exc
           ELSE /\ exc' = [exc EXCEPT ![p] = e]
                /\ pc' = [pc EXCEPT ![p] = "rollback"]
                /\ UNCHANGED <<db, pending, conn, result>>
    /\ UNCHANGED <<lifeVars, calls, op, arg>>

\* The except clauses: await session.rollback(), then the error return.
\* A rollback that raises leaves the handler with that exception.
Rollback(p) ==
    /\ pc[p] = "rollback"
    /\ \E e \in {NoExc} \cup Faults :
        /\ trace' = [trace EXCEPT ![p] = Append(@, Awaited("rollback", e))]
        /\ IF e = NoExc
           THEN /\ pending' = [pending EXCEPT ![SessionOf(p)] = NoArg]
                /\ conn' = [conn EXCEPT ![p] = FALSE]
                /\ result' = [result EXCEPT ![p] = ErrorMessage(op[p], exc[p])]
           ELSE /\ result' = [result EXCEPT ![p] = Raised(e)]
                /\ UNCHANGED <<pending, conn>>
    /\ pc' = [pc EXCEPT ![p] = "close"]
    /\ UNCHANGED <<lifeVars, db, calls, op, arg, exc>>

\* Close where leaving the session block does not return the connection.
CloseKeepsConnection(p) ==
    /\ pc[p] = "close"
    /\ pending' = [pending EXCEPT ![SessionOf(p)] = NoArg]
    /\ pc' = [pc EXCEPT ![p] = "done"]
    /\ UNCHANGED <<lifeVars, db, calls, op, arg, exc, result, trace, conn>>

\* Leaving async with AsyncSession(engine): the session is closed, which
\* rolls back whatever is uncommitted and returns the connection.
Close(p) ==
    /\ pc[p] = "close"
    /\ pending' = [pending EXCEPT ![SessionOf(p)] = NoArg]
    /\ conn' = [conn EXCEPT ![p] = FALSE]
    /\ pc' = [pc EXCEPT ![p] = "done"]
    /\ UNCHANGED <<lifeVars, db, calls, op, arg, exc, result, trace>>

(***************************************************************************)
(* Specification                                                           *)
(***************************************************************************)
Next ==
    \/ \E dsn \in {"None", "dsn"} : serve(dsn)
    \/ mcp_run
    \/ app_lifespan_enter
    \/ main_load
    \/ \E reachable \in BOOLEAN : main_app_lifespan_enter(reachable)
    \/ \E error \in BOOLEAN : app_lifespan_exit(error)
    \/ \E p \in Procs, o \in IntrospectionOps \cup StatementOps :
           \E a \in ArgsOf(o) : Call(p, o, a)
    \/ \E p \in Procs : Return(p)
    \/ \E p \in Procs : Connect(p)
    \/ \E p \in Procs : RunSync(p)
    \/ \E p \in Procs : Execute(p)
    \/ \E p \in Procs : Commit(p)
    \/ \E p \in Procs : Rollback(p)
    \/ \E p \in Procs : Close(p)

Spec == Init /\ [][Next]_vars

SpecConcurrent == InitConcurrent /\ [][Next]_vars

(***************************************************************************)
(* Vocabulary of the properties                                            *)
(***************************************************************************)
\* Invocation p has handed its result to the caller.
Finished(p) == pc[p] = "done"

\* How often invocation p has awaited session method m.
Awaits(p, m) == Cardinality({i \in DOMAIN trace[p] : trace[p][i].call = m})

Ok(m) == [call |-> m, raised |-> FALSE]

Fail(m) == [call |-> m, raised |-> TRUE]

\* The last session method invocation p awaited.
LastAwait(p) == trace[p][Len(trace[p])]

\* The messages an exception can carry.
Messages ==
    {"connection lost", "unexpected failure", "column specified more than once",
     "relation already exists", "relation does not exist"}

SuccessTexts ==
    {"DDL query executed successfully.", "DCL query executed successfully.",
     "DML query executed successfully. Affected rows: 1",
     "DML query executed successfully. Affected rows: -1"}

\* The error strings of the three transactional tools, written out.
DatabaseErrorText(tag, m) == "Error occurred while executing " \o tag \o " query: " \o m

UnexpectedErrorText(tag, m) ==
    "Unexpected error occurred while executing " \o tag \o " query: " \o m

TagOf(p) ==
    IF op[p] = "run_ddl_query" THEN "DDL"
    ELSE IF op[p] = "run_dml_query" THEN "DML" ELSE "DCL"

ErrorTexts ==
    {DatabaseErrorText(t, m) : t \in {"DDL", "DML", "DCL"}, m \in Messages}
    \cup {UnexpectedErrorText(t, m) : t \in {"DDL", "DML", "DCL"}, m \in Messages}

IsSuccess(r) == r.kind = "str" /\ r.text \in SuccessTexts

IsError(r) == r.kind = "str" /\ r.text \in ErrorTexts

(***************************************************************************)
(* C1.  run_ddl_query, run_dml_query and run_dcl_query follow              *)
(* start -> execute -> (commit -> success) | (exception -> rollback ->     *)
(* error): the statement is executed exactly once, never retried; the      *)
(* success string is handed back only after execute and then commit both   *)
(* completed, in that order; an invocation that hands back an error        *)
(* string has rolled back and has not reported success.                    *)
(***************************************************************************)
C1_Paths ==
    {<<Ok("execute"), Ok("commit")>>,
     <<Fail("execute"), Ok("rollback")>>,
     <<Fail("execute"), Fail("rollback")>>,
     <<Ok("execute"), Fail("commit"), Ok("rollback")>>,
     <<Ok("execute"), Fail("commit"), Fail("rollback")>>}

C1_StateMachine ==
    \A p \in Procs :
        op[p] \in TransactionalOps =>
            /\ Awaits(p, "execute") <= 1
            /\ pc[p] # "execute" => Awaits(p, "execute") = 1 /\ trace[p][1].call = "execute"
            /\ pc[p] = "commit" => trace[p] = <<Ok("execute")>>
            /\ IsSuccess(result[p]) => trace[p] = <<Ok("execute"), Ok("commit")>>
            /\ IsError(result[p]) =>
                   /\ LastAwait(p) = Ok("rollback")
                   /\ Awaits(p, "rollback") = 1
                   /\ Ok("commit") \notin {trace[p][i] : i \in DOMAIN trace[p]}
                   /\ ~IsSuccess(result[p])
            /\ Finished(p) => trace[p] \in C1_Paths
            /\ Finished(p) /\ trace[p] = <<Ok("execute"), Ok("commit")>> => IsSuccess(result[p])

\* A commit failed, the rollback went through and the error string is out.
C1_Witness ==
    \E p \in Procs :
        /\ Finished(p)
        /\ op[p] \in TransactionalOps
        /\ trace[p] = <<Ok("execute"), Fail("commit"), Ok("rollback")>>
        /\ IsError(result[p])

C3_IntrospectionNeverRaises ==
    \A p \in Procs :
        Finished(p) /\ op[p] \in IntrospectionOps /\ exc[p] # NoExc =>
            result[p] = Str("Error occurred while querying table: " \o exc[p].msg)

(***************************************************************************)
(* C4.  As claimed: run_ddl_query or run_dml_query called with a           *)
(* statement that fails hands back a string containing "Error", after      *)
(* its transaction was rolled back.                                        *)
(***************************************************************************)
\* The errors the engine raises because of the statement itself.
StatementMessages ==
    {"column specified more than once", "relation already exists",
     "relation does not exist"}

\* Invocation p of run_ddl_query or run_dml_query executed a statement
\* that the engine rejected.
StatementFailed(p) ==
    /\ op[p] \in {"run_ddl_query", "run_dml_query"}
    /\ trace[p] # <<>>
    /\ trace[p][1] = Fail("execute")
    /\ exc[p].cls = "SA"
    /\ exc[p].msg \in StatementMessages

\* The result strings that contain the word "Error".
TextsWithError == {DatabaseErrorText(t, m) : t \in {"DDL", "DML", "DCL"}, m \in Messages}

Listed(r) == {r.rows[i][1] : i \in DOMAIN r.rows}

C4_FailedCall ==
    \A p \in Procs :
        Finished(p) /\ StatementFailed(p) =>
            /\ Awaits(p, "commit") = 0
            /\ Awaits(p, "rollback") = 1
            /\ pending[p] = NoArg
            /\ LastAwait(p) = Ok("rollback") =>
                   result[p] = Str(DatabaseErrorText(TagOf(p), exc[p].msg))
            /\ LastAwait(p) = Fail("rollback") => result[p].kind = "raise"

C4_GetTables ==
    \A p \in Procs :
        Finished(p) /\ op[p] = "get_tables" /\ exc[p] = NoExc =>
            /\ result[p].kind \in {"str", "table"}
            /\ \A t \in Tables :
                   t \in Listed(result[p]) <=>
                       (SchemaOrPublic(arg[p].schema) = "public" /\ db[t].exists)

\* No step taken while a failed invocation is in flight, its failing
\* execute included, changes the committed state.
C4_NoEffect ==
    \A p \in Procs : (StatementFailed(p) \/ StatementFailed(p)') => db' = db

C5_RoundTrip ==
    \A p \in Procs :
        Finished(p) =>
            /\ ( /\ op[p] = "run_ddl_query"
                 /\ arg[p].kind = "CREATE"
                 /\ result[p] = Str("DDL query executed successfully.") )
               => db[arg[p].table].exists
            /\ ( /\ op[p] = "run_dml_query"
                 /\ arg[p].kind = "INSERT"
                 /\ trace[p] = <<Ok("execute"), Ok("commit")>> )
               => /\ result[p] = Str("DML query executed successfully. Affected rows: 1")
                  /\ db[arg[p].table].rows # <<>>
                  /\ db[arg[p].table].rows[Len(db[arg[p].table].rows)] = arg[p].value
            /\ ( /\ op[p] = "run_dql_query"
                 /\ arg[p].kind = "SELECT"
                 /\ trace[p] = <<Ok("execute")>>
                 /\ db[arg[p].table].rows # <<>> )
               => /\ result[p].kind = "table"
                  /\ \A i \in DOMAIN db[arg[p].table].rows :
                         \E j \in DOMAIN result[p].rows :
                             result[p].rows[j] = <<db[arg[p].table].rows[i]>>
            /\ ( /\ op[p] = "get_tables"
                 /\ exc[p] = NoExc
                 /\ SchemaOrPublic(arg[p].schema) = "public" )
               => \A t \in Tables : db[t].exists => t \in Listed(result[p])

\* A SELECT shows a table whose first row is "a": the table was created
\* and the row inserted by earlier calls of this run.
C5_Witness ==
    \E p \in Procs :
        /\ Finished(p)
        /\ op[p] = "run_dql_query"
        /\ arg[p] = Stmt("SELECT", "t1", "")
        /\ result[p].kind = "table"
        /\ result[p].rows = << <<"a">> >>

(***************************************************************************)
(* C6.  Handle lifecycle: exactly one engine is created, at startup; it    *)
(* is disposed exactly once, at shutdown, also when the serving body ends  *)
(* with an error; no tool runs before the engine is created or after it    *)
(* is disposed; no tool, whether it succeeds or fails, disposes or         *)
(* replaces the engine.                                                    *)
(***************************************************************************)
C6_Handle ==
    /\ created \in {0, 1}
    /\ disposed <= created
    /\ phase \in {"boot", "run"} => created = 0 /\ disposed = 0 /\ calls = 0
    /\ phase = "failed" => disposed = 0 /\ calls = 0
    /\ phase = "serving" => created = 1 /\ disposed = 0
    /\ phase \in {"stopped", "aborted"} => created = 1 /\ disposed = 1
    /\ \A p \in Procs : pc[p] # "idle" => phase = "serving" /\ created = 1 /\ disposed = 0

\* The engine is created or disposed only in steps in which no tool runs.
C6_OnlyTheManager ==
    (created' # created \/ disposed' # disposed) =>
        \A p \in Procs : pc[p] = "idle" /\ pc'[p] = "idle"

C6_HandleLifecycle == []C6_Handle /\ [][C6_OnlyTheManager]_vars

\* The body served calls and ended with an error; the engine is disposed.
C6_Witness == phase = "aborted" /\ calls > 0 /\ created = 1 /\ disposed = 1

(***************************************************************************)
(* C7.  Two run_dml_query invocations running concurrently against         *)
(* different tables, in any interleaving of their steps, each use their    *)
(* own session and transaction, both report success, and each table gets   *)
(* exactly the rows its own invocation wrote: no row of one transaction    *)
(* is committed or rolled back by the other.                               *)
(***************************************************************************)
\* p and q are in flight together, inserting into different tables.
C7_Pair(p, q) ==
    /\ p # q
    /\ op[p] = "run_dml_query" /\ op[q] = "run_dml_query"
    /\ arg[p].kind = "INSERT" /\ arg[q].kind = "INSERT"
    /\ arg[p].table # arg[q].table

C7_Own ==
    \A p, q \in Procs :
        C7_Pair(p, q) =>
            /\ pending[p] \in {NoArg, arg[p]}
            /\ pc[p] = "commit" => pending[p] = arg[p]
            /\ (trace[p] # <<>> /\ trace[p][1] = Fail("execute")) =>
                   (exc[p] \in Faults \/ ~db[arg[p].table].exists)
            /\ (Finished(p) /\ db[arg[p].table].exists /\ exc[p] \notin Faults) =>
                   /\ result[p] = Str("DML query executed successfully. Affected rows: 1")
                   /\ \E i \in DOMAIN db[arg[p].table].rows :
                          db[arg[p].table].rows[i] = arg[p].value

\* A step of invocation p touches no other session; the committed state
\* changes only when p's commit completes, and then by p's statement alone.
C7_Isolated ==
    \A p \in Procs :
        pc'[p] # pc[p] =>
            /\ \A q \in Procs \ {p} : pending'[q] = pending[q] /\ result'[q] = result[q]
            /\ IF pc[p] = "commit" /\ pc'[p] = "close"
               THEN db' = (IF Writes(arg[p]) THEN Apply(db, arg[p]) ELSE db)
               ELSE db' = db

C7_ConcurrentDml == []C7_Own /\ [][C7_Isolated]_vars

\* Both transactions are open at once: each has executed its INSERT and
\* neither has committed.
C7_Witness ==
    /\ C7_Pair("c1", "c2")
    /\ pc["c1"] = "commit" /\ pc["c2"] = "commit"
    /\ pending["c1"] = arg["c1"] /\ pending["c2"] = arg["c2"]

(***************************************************************************)
(* C8.  As claimed: in the three transactional tools a database-layer      *)
(* error raised by execute or commit yields "Error occurred while          *)
(* executing {DDL|DML|DCL} query: {detail}", any other exception           *)
(* "Unexpected error occurred while executing ... query: {detail}"; in     *)
(* both cases rollback is called exactly once and nothing is raised.       *)
(***************************************************************************)
\* The error string for the exception invocation p caught, by its class.
C8_Expected(p) ==
    IF exc[p].cls = "SA"
    THEN Str(DatabaseErrorText(TagOf(p), exc[p].msg))
    ELSE Str(UnexpectedErrorText(TagOf(p), exc[p].msg))

C9_NoCommitNoRollback ==
    \A p \in Procs :
        op[p] = "run_dql_query" =>
            /\ Awaits(p, "commit") = 0
            /\ Awaits(p, "rollback") = 0
            /\ Finished(p) => pending[p] = NoArg /\ Awaits(p, "execute") = 1

\* No step of a run_dql_query invocation changes the committed state.
C9_Frame ==
    \A p \in Procs :
        (pc'[p] # pc[p] /\ (op[p] = "run_dql_query" \/ op'[p] = "run_dql_query")) =>
            db' = db

C9_DqlReadOnly == []C9_NoCommitNoRollback /\ [][C9_Frame]_vars

\* An INSERT sent to run_dql_query was executed and the call is over.
C9_Witness ==
    \E p \in Procs :
        /\ Finished(p)
        /\ op[p] = "run_dql_query"
        /\ arg[p].kind = "INSERT"
        /\ trace[p] = <<Ok("execute")>>
        /\ \A i \in DOMAIN db[arg[p].table].rows : db[arg[p].table].rows[i] # arg[p].value

(***************************************************************************)
(* C10.  run_dql_query returns exactly "Query returned no results." if     *)
(* and only if the executed statement produced zero rows; when it          *)
(* produced at least one row the result is a table whose headers are the   *)
(* column names the driver reported and whose rows are in the order the    *)
(* engine returned them.                                                   *)
(***************************************************************************)
C10_NoResultsIffEmpty ==
    \A p \in Procs :
        Finished(p) /\ op[p] = "run_dql_query" =>
            /\ result[p] = Str("Query returned no results.") <=>
                   /\ trace[p] = <<Ok("execute")>>
                   /\ arg[p].kind = "SELECT"
                   /\ db[arg[p].table].rows = <<>>
            /\ ( /\ trace[p] = <<Ok("execute")>>
                 /\ arg[p].kind = "SELECT"
                 /\ db[arg[p].table].rows # <<>> )
               => /\ result[p].kind = "table"
                  /\ result[p].headers = <<"name">>
                  /\ Len(result[p].rows) = Len(db[arg[p].table].rows)
                  /\ \A i \in DOMAIN result[p].rows :
                         result[p].rows[i] = <<db[arg[p].table].rows[i]>>

\* A SELECT returned two rows, in the order they were stored.
C10_Witness ==
    \E p \in Procs :
        /\ Finished(p)
        /\ op[p] = "run_dql_query"
        /\ result[p].kind = "table"
        /\ result[p].rows = << <<"b">>, <<"a">> >>

(***************************************************************************)
(* C11.  Startup configuration: the server starts serving tools whenever   *)
(* a connection string was supplied through the DATABASE_URL environment   *)
(* variable or through the --dsn flag; when neither supplies one, startup  *)
(* fails before the engine is created and before any tool is served.       *)
(* environ holds the string the lifespan manager will read: serve stores   *)
(* a given --dsn there and leaves the environment as it was when the flag  *)
(* is omitted, so environ is "unset" exactly when neither supplied one.    *)
(***************************************************************************)
\* Startup failed before an engine was made: the configuration stage.
C11_ConfigurationFailed == phase = "failed" /\ created = 0

C11_StartsWheneverSupplied ==
    /\ C11_ConfigurationFailed => environ = "unset"
    /\ environ = "unset" =>
           /\ phase \in {"boot", "run", "failed"}
           /\ created = 0
           /\ calls = 0

(***************************************************************************)
(* C12.  As claimed: when the statement passed to run_dql_query fails to   *)
(* execute (it selects from a table that does not exist), run_dql_query    *)
(* raises to its caller instead of returning a string, whereas a failing   *)
(* statement passed to run_ddl_query is returned as a string containing    *)
(* "Error occurred".                                                       *)
(***************************************************************************)
\* Invocation p of tool o is over and its statement was rejected by the
\* engine with message m: a statement error, no fault of the connection.
C12_Rejected(p, o, m) ==
    /\ Finished(p)
    /\ op[p] = o
    /\ trace[p] # <<>>
    /\ trace[p][1] = Fail("execute")
    /\ m \in StatementMessages
    /\ m = StmtError(arg[p], db).msg

\* Whenever its execute failed, run_dql_query let the exception escape and
\* called nothing else; a rejected statement escapes as the engine's error
\* unless a fault of the connection came first.
C12_DqlRaises ==
    \A p \in Procs :
        (Finished(p) /\ op[p] = "run_dql_query" /\ trace[p][1] = Fail("execute")) =>
            /\ trace[p] = <<Fail("execute")>>
            /\ result[p].kind = "raise"
            /\ result[p].exc \in Faults \cup {StmtError(arg[p], db)}
            /\ result[p].exc # NoExc

C13_Outcomes(p) == [i \in DOMAIN trace[p] |-> trace[p][i].raised]

\* The session methods invocation p awaited, in order.
C13_Steps(p) == [i \in DOMAIN trace[p] |-> trace[p][i].call]

\* The steps tool o takes when the engine reports outs: no statement here.
C13_Policy(o, outs) ==
    IF o = "run_dql_query" THEN <<"execute">>
    ELSE IF outs[1] THEN <<"execute", "rollback">>
    ELSE IF Len(outs) >= 2 /\ outs[2] THEN <<"execute", "commit", "rollback">>
    ELSE <<"execute", "commit">>

\* The kind of result tool o hands back when the engine reports outs and a
\* result that does (rows) or does not carry rows.
C13_Kind(o, outs, rows) ==
    IF o = "run_dql_query"
    THEN (IF outs = <<FALSE>> /\ rows THEN "rows" ELSE "raise")
    ELSE IF outs = <<FALSE, FALSE>> THEN "success"
    ELSE IF outs[Len(outs)] THEN "raise"
    ELSE "error"

\* The kind of result r, handed back by tool o.
C13_KindOf(r, o) ==
    IF r.kind = "raise" THEN "raise"
    ELSE IF o = "run_dql_query" /\ (r.kind = "table" \/ r = Str("Query returned no results."))
         THEN "rows"
    ELSE IF IsSuccess(r) THEN "success"
    ELSE IF IsError(r) THEN "error"
    ELSE "other"

C13_ByToolAndOutcome ==
    \A p \in Procs :
        op[p] \in StatementOps =>
            /\ Finished(p) =>
                   /\ C13_Steps(p) = C13_Policy(op[p], C13_Outcomes(p))
                   /\ C13_KindOf(result[p], op[p])
                          = C13_Kind(op[p], C13_Outcomes(p), ReturnsRows(arg[p]))
            /\ op[p] = "run_dql_query" => Awaits(p, "commit") = 0
            /\ ( /\ Finished(p)
                 /\ op[p] = "run_ddl_query"
                 /\ arg[p].kind = "SELECT"
                 /\ C13_Outcomes(p) = <<FALSE, FALSE>> )
               => /\ C13_Steps(p) = <<"execute", "commit">>
                  /\ result[p] = Str("DDL query executed successfully.")

\* A step of run_dql_query carrying a data-changing statement leaves the
\* committed state as it was.
C13_DqlWriteNotCommitted ==
    \A p \in Procs :
        (op[p] = "run_dql_query" /\ Writes(arg[p]) /\ pc'[p] # pc[p]) => db' = db

C13_PolicyIgnoresText == []C13_ByToolAndOutcome /\ [][C13_DqlWriteNotCommitted]_vars

\* A SELECT sent to run_ddl_query was executed, committed and answered as
\* a DDL statement.
C13_Witness ==
    \E p \in Procs :
        /\ Finished(p)
        /\ op[p] = "run_ddl_query"
        /\ arg[p].kind = "SELECT"
        /\ trace[p] = <<Ok("execute"), Ok("commit")>>
        /\ result[p] = Str("DDL query executed successfully.")

(***************************************************************************)
(* C14.  No tool operation leaks a borrowed connection or session: each    *)
(* of the nine operations releases what it opened on every exit path       *)
(* (success string, error string, or exception reaching the caller), so    *)
(* whenever all started operations are over, failed ones included, the     *)
(* number of connections and sessions still borrowed from the engine is    *)
(* zero; the engine is never disposed with a connection out.               *)
(***************************************************************************)
\* The number of connections checked out of the engine's pool.
C14_Borrowed == Cardinality({p \in Procs : conn[p]})

\* The number of sessions holding uncommitted work.
C14_OpenTransactions == Cardinality({p \in Procs : pending[p] # NoArg})

C14_NothingBorrowed ==
    /\ \A p \in Procs :
           pc[p] \in {"idle", "done"} => ~conn[p] /\ pending[p] = NoArg
    /\ (\A p \in Procs : pc[p] \in {"idle", "done"}) =>
           C14_Borrowed = 0 /\ C14_OpenTransactions = 0
    /\ phase # "serving" => C14_Borrowed = 0 /\ C14_OpenTransactions = 0
    /\ C14_Borrowed <= Cardinality({p \in Procs : pc[p] \notin {"idle", "done"}})

\* run_dml_query executed its statement, the commit failed and the
\* rollback raised: the exception reached the caller, and the connection
\* is back in the pool with nothing uncommitted.
C14_Witness ==
    \E p \in Procs :
        /\ Finished(p)
        /\ op[p] = "run_dml_query"
        /\ trace[p] = <<Ok("execute"), Fail("commit"), Fail("rollback")>>
        /\ result[p].kind = "raise"
        /\ ~conn[p]
        /\ pending[p] = NoArg
        /\ calls >= 2

====
